---- MODULE Spec2Model ----
(***************************************************************************)
(* Model of the "zemizer-translator.translate" command (src/extension.js). *)
(* One behaviour is one invocation of cmdTranslate together with the host  *)
(* events it awaits (HTTP responses, quick-pick answers, the resolution of *)
(* the editor edit) and the user moving the selection while it is pending. *)
(***************************************************************************)
EXTENDS Naturals, Sequences, FiniteSets

VARIABLES
    editor,             \* TRUE iff vscode.window.activeTextEditor is defined
    doc,                \* editor.document, a sequence of characters
    selection,          \* editor.selection, offsets [start, end] into doc
    pc,                 \* position of cmdTranslate
    selectedText,       \* const selectedText (the selection read at line 118)
    text,               \* const text (line 119)
    supportedLanguages, \* let supportedLanguages (line 133)
    languages,          \* const languages (line 143), in Object.entries order
    lookups,            \* calls of languageTags.language made by getLanguageNames
    sourceLangPick,     \* line 148
    sourceLang,         \* line 152
    targetLangPick,     \* line 164
    targetLang,         \* line 168
    getOutcome,         \* how the GET /languages request ended
    postOutcome,        \* how the POST request ended
    httpLog,            \* requests handed to axios.request, in order
    inFlight,           \* number of requests not yet answered
    prompts,            \* placeHolders of the showQuickPick calls, in order
    errorMessages,      \* showErrorMessage calls, in order
    infoMessages,       \* showInformationMessage calls, in order
    edits,              \* editBuilder.replace calls, in order
    editOutcome,        \* how editor.edit resolved: applied (true) or rejected (false)
    trace,              \* steps of the invocation, in order
    threw,              \* TRUE iff cmdTranslate ended by an uncaught exception
    doc0                \* the document when the command was invoked

vars == <<editor, doc, selection, pc, selectedText, text, supportedLanguages,
          languages, lookups, sourceLangPick, sourceLang, targetLangPick,
          targetLang, getOutcome, postOutcome, httpLog, inFlight, prompts,
          errorMessages, infoMessages, edits, editOutcome, trace, threw, doc0>>

(***************************************************************************)
(* Bounds                                                                  *)
(***************************************************************************)
MaxDocLen == 1
MaxCodes == 2

(***************************************************************************)
(* Values                                                                  *)
(***************************************************************************)
Unset == "<unset>"
Undefined == "<undefined>"
Null == "<null>"

NL == "\n"
Char == {"a", NL}

\* String(undefined), what undefined + "" evaluates to
UndefinedString == <<"u", "n", "d", "e", "f", "i", "n", "e", "d">>

SeqsUpTo(S, n) == UNION {[1..k -> S] : k \in 0..n}

\* codes the API may list: plain ones, the special cases, one that is no
\* language subtag
Codes == {"he", "iw", "zh-CN", "zh-TW", "mni-Mtei", "en-GB"}

Ranges(d) == {r \in [start : 0..Len(d), end : 0..Len(d)] : r.start <= r.end}

NoRange == [start |-> 0, end |-> 0]

(***************************************************************************)
(* The editor document                                                     *)
(***************************************************************************)
getText(d, r) == SubSeq(d, r.start + 1, r.end)

replace(d, r, t) == SubSeq(d, 1, r.start) \o t \o SubSeq(d, r.end + 1, Len(d))

endsWith(s, c) == Len(s) > 0 /\ s[Len(s)] = c

(***************************************************************************)
(* getLanguageNames                                                        *)
(***************************************************************************)
NormalizeCodeZhTwUnchanged(code) ==
    CASE code = "zh-CN" -> "cmn"
      [] code = "mni-Mtei" -> "mni"
      [] OTHER -> code

NormalizeCode(code) ==
    CASE code = "zh-CN" -> "cmn"
      [] code = "zh-TW" -> "TW"
      [] code = "mni-Mtei" -> "mni"
      [] OTHER -> code

\* languageTags.language(tag): the first description of the language subtag,
\* Null when the registry has no such language subtag
LanguageName(tag) ==
    CASE tag = "he" -> "Hebrew"
      [] tag = "iw" -> "Hebrew"
      [] tag = "cmn" -> "Mandarin Chinese"
      [] tag = "TW" -> "Twi"
      [] tag = "mni" -> "Manipuri"
      [] OTHER -> Null

Names == {"Hebrew", "Mandarin Chinese", "Twi", "Manipuri", "Klingon"}

HasKey(map, code) == \E i \in DOMAIN map : map[i].code = code

\* languageNames[code] = name
Put(map, code, name) ==
    IF HasKey(map, code)
      THEN [i \in DOMAIN map |->
              IF map[i].code = code THEN [code |-> code, name |-> name] ELSE map[i]]
      ELSE Append(map, [code |-> code, name |-> name])

\* codes.forEach from its i-th element on; calls records every
\* languageTags.language(tag) call with the element it was made for
RECURSIVE forEachCode(_, _, _, _)
forEachCode(codes, i, map, calls) ==
    IF i > Len(codes) THEN [languageNames |-> map, calls |-> calls]
    ELSE LET tag == NormalizeCode(codes[i])
             name == LanguageName(tag)
             called == Append(calls, [code |-> codes[i], tag |-> tag])
         IN  IF name = Null
               THEN forEachCode(codes, i + 1, map, called)
               ELSE forEachCode(codes, i + 1, Put(map, tag, name), called)

getLanguageNames(codes) == forEachCode(codes, 1, <<>>, <<>>).languageNames

\* the languageTags.language calls made by getLanguageNames(codes)
LanguageLookups(codes) == forEachCode(codes, 1, <<>>, <<>>).calls

\* Object.values(languages)
languagesNames(map) == {map[i].name : i \in DOMAIN map}

(***************************************************************************)
(* nameToCode                                                              *)
(***************************************************************************)
RECURSIVE nameToCodeLastFrom(_, _, _)
nameToCodeLastFrom(map, name, i) ==
    IF i < 1 THEN Null
    ELSE IF map[i].name = name THEN map[i].code
    ELSE nameToCodeLastFrom(map, name, i - 1)

nameToCodeLast(map, name) == nameToCodeLastFrom(map, name, Len(map))

RECURSIVE nameToCodeFrom(_, _, _)
nameToCodeFrom(map, name, i) ==
    IF i > Len(map) THEN Null
    ELSE IF map[i].name = name THEN map[i].code
    ELSE nameToCodeFrom(map, name, i + 1)

nameToCode(map, name) == nameToCodeFrom(map, name, 1)

(***************************************************************************)
(* Helpers of cmdTranslate                                                 *)
(***************************************************************************)
\* sourceLangPick ? nameToCode(languages, sourceLangPick) : null
PickToCode(map, pick) == IF pick = Undefined THEN Null ELSE nameToCode(map, pick)

NotSpecifiedNever(lang) == FALSE

\* !sourceLang, !targetLang
NotSpecified(lang) == lang = Null

\* lists of distinct codes, as response.data.languages gives them
CodeLists ==
    {l \in SeqsUpTo(Codes, MaxCodes) : \A i, j \in DOMAIN l : l[i] = l[j] => i = j}

GetResponses ==
    {[kind |-> "rejected"], [kind |-> "malformed"]}
        \cup {[kind |-> "ok", languages |-> l] : l \in CodeLists}

\* translatedText of a response: empty, without, only and ending with a newline
TranslatedTexts == {<<>>, <<"a">>, <<NL>>, <<"a", NL>>}

PostResponses ==
    {[kind |-> k] : k \in {"rejected", "noData", "noTranslations", "noTranslatedText"}}
        \cup {[kind |-> "ok", translatedText |-> t] : t \in TranslatedTexts}

TranslateThrowsOnlyOnRejection(resp) == resp.kind = "rejected"

\* lines 188-192 throw: the request is rejected, or response.data.data or
\* response.data.data.translations is undefined
TranslateThrows(resp) == resp.kind \in {"rejected", "noData", "noTranslations"}

\* response.data.data.translations.translatedText, coerced by +
ResponseText(resp) ==
    IF resp.kind = "ok" THEN resp.translatedText ELSE UndefinedString

ReplacementTextUnlessPresent(resp, original) ==
    ResponseText(resp) \o
        (IF endsWith(original, NL) /\ ~endsWith(ResponseText(resp), NL)
           THEN <<NL>> ELSE <<>>)

\* const translatedText (lines 190-192)
ReplacementText(resp, original) ==
    ResponseText(resp) \o (IF endsWith(original, NL) THEN <<NL>> ELSE <<>>)

(***************************************************************************)
(* Initial state: the command has not been invoked yet                     *)
(***************************************************************************)
Init ==
    /\ editor \in BOOLEAN
    /\ doc \in (IF editor THEN SeqsUpTo(Char, MaxDocLen) ELSE {<<>>})
    /\ selection \in Ranges(doc)
    /\ doc0 = doc
    /\ pc = "idle"
    /\ selectedText = NoRange
    /\ text = <<>>
    /\ supportedLanguages = <<>>
    /\ languages = <<>>
    /\ lookups = <<>>
    /\ sourceLangPick = Unset
    /\ sourceLang = Unset
    /\ targetLangPick = Unset
    /\ targetLang = Unset
    /\ getOutcome = Unset
    /\ postOutcome = [kind |-> Unset]
    /\ httpLog = <<>>
    /\ inFlight = 0
    /\ prompts = <<>>
    /\ errorMessages = <<>>
    /\ infoMessages = <<>>
    /\ edits = <<>>
    /\ editOutcome = Unset
    /\ trace = <<>>
    /\ threw = FALSE

(***************************************************************************)
(* cmdTranslate, lines 115-132: up to the first await                      *)
(***************************************************************************)
Invoke ==
    /\ pc = "idle"
    /\ UNCHANGED <<editor, doc, selection, doc0, supportedLanguages, languages,
                   lookups, sourceLangPick, sourceLang, targetLangPick,
                   targetLang, getOutcome, postOutcome, prompts, infoMessages,
                   edits, editOutcome>>
    /\ IF ~editor
         THEN \* editor.selection of undefined: TypeError at line 118
              /\ threw' = TRUE
              /\ pc' = "done"
              /\ UNCHANGED <<selectedText, text, httpLog, inFlight,
                             errorMessages, trace>>
         ELSE /\ selectedText' = selection
              /\ text' = getText(doc, selection)
              /\ threw' = FALSE
              /\ IF text' = <<>>
                   THEN /\ errorMessages' =
                              Append(errorMessages, "ZeTranslate: No text selected!")
                        /\ pc' = "done"
                        /\ UNCHANGED <<httpLog, inFlight, trace>>
                   ELSE /\ httpLog' = Append(httpLog, [method |-> "GET", url |-> "/languages"])
                        /\ inFlight' = inFlight + 1
                        /\ trace' = Append(trace, "get")
                        /\ pc' = "get"
                        /\ UNCHANGED errorMessages

(***************************************************************************)
(* lines 132-150: the GET answer, getLanguageNames, the source prompt      *)
(***************************************************************************)
GetResponse ==
    /\ pc = "get"
    /\ \E resp \in GetResponses :
         /\ getOutcome' = resp.kind
         /\ inFlight' = inFlight - 1
         /\ IF resp.kind # "ok"
              THEN /\ errorMessages' = Append(errorMessages,
                        "ZeTranslate: Error while getting the list of supported languages")
                   /\ pc' = "done"
                   /\ UNCHANGED <<supportedLanguages, languages, lookups,
                                  prompts, trace>>
              ELSE /\ supportedLanguages' = resp.languages
                   /\ languages' = getLanguageNames(resp.languages)
                   /\ lookups' = LanguageLookups(resp.languages)
                   /\ prompts' = Append(prompts, "Select the source language")
                   /\ trace' = Append(trace, "source")
                   /\ pc' = "source"
                   /\ UNCHANGED errorMessages
    /\ UNCHANGED <<editor, doc, selection, doc0, selectedText, text,
                   sourceLangPick, sourceLang, targetLangPick, targetLang,
                   postOutcome, httpLog, infoMessages, edits, editOutcome, threw>>

(***************************************************************************)
(* lines 148-166: the source pick, the target prompt                       *)
(***************************************************************************)
SourcePick ==
    /\ pc = "source"
    /\ \E pick \in languagesNames(languages) \cup {Undefined} :
         /\ sourceLangPick' = pick
         /\ sourceLang' = PickToCode(languages, pick)
         /\ IF NotSpecified(sourceLang')
              THEN /\ infoMessages' = Append(infoMessages,
                        "ZeTranslate: Source language not specified")
                   /\ pc' = "done"
                   /\ UNCHANGED <<prompts, trace>>
              ELSE /\ prompts' = Append(prompts, "Select the target language")
                   /\ trace' = Append(trace, "target")
                   /\ pc' = "target"
                   /\ UNCHANGED infoMessages
    /\ UNCHANGED <<editor, doc, selection, doc0, selectedText, text,
                   supportedLanguages, languages, lookups, targetLangPick,
                   targetLang, getOutcome, postOutcome, httpLog, inFlight,
                   errorMessages, edits, editOutcome, threw>>

(***************************************************************************)
(* lines 164-188: the target pick, the POST request                        *)
(***************************************************************************)
TargetPick ==
    /\ pc = "target"
    /\ \E pick \in languagesNames(languages) \cup {Undefined} :
         /\ targetLangPick' = pick
         /\ targetLang' = PickToCode(languages, pick)
         /\ IF NotSpecified(targetLang')
              THEN /\ infoMessages' = Append(infoMessages,
                        "ZeTranslate: Target language not specified")
                   /\ pc' = "done"
                   /\ UNCHANGED <<httpLog, inFlight, trace>>
              ELSE /\ httpLog' = Append(httpLog,
                        [method |-> "POST", url |-> "", q |-> text,
                         source |-> sourceLang, target |-> targetLang'])
                   /\ inFlight' = inFlight + 1
                   /\ trace' = Append(trace, "post")
                   /\ pc' = "post"
                   /\ UNCHANGED infoMessages
    /\ UNCHANGED <<editor, doc, selection, doc0, selectedText, text,
                   supportedLanguages, languages, lookups, sourceLangPick,
                   sourceLang, getOutcome, postOutcome, prompts, errorMessages,
                   edits, editOutcome, threw>>

(***************************************************************************)
(* lines 186-211: the POST answer, the edit handed to the editor           *)
(***************************************************************************)
PostResponse ==
    /\ pc = "post"
    /\ \E resp \in PostResponses :
         /\ postOutcome' = resp
         /\ inFlight' = inFlight - 1
         /\ IF TranslateThrows(resp)
              THEN /\ errorMessages' = Append(errorMessages,
                        "ZeTranslate: Error while translating the text")
                   /\ pc' = "done"
                   /\ UNCHANGED <<edits, trace>>
              ELSE /\ edits' = Append(edits,
                        [range |-> selection, text |-> ReplacementText(resp, text)])
                   /\ trace' = Append(trace, "edit")
                   /\ pc' = "edit"
                   /\ UNCHANGED errorMessages
    /\ UNCHANGED <<editor, doc, selection, doc0, selectedText, text,
                   supportedLanguages, languages, lookups, sourceLangPick,
                   sourceLang, targetLangPick, targetLang, getOutcome, httpLog,
                   prompts, infoMessages, editOutcome, threw>>

(***************************************************************************)
(* lines 199-205: editor.edit resolves                                     *)
(***************************************************************************)
EditResolved ==
    /\ pc = "edit"
    /\ \E success \in BOOLEAN :
         /\ editOutcome' = (IF success THEN "applied" ELSE "rejected")
         /\ IF success
              THEN /\ doc' = replace(doc, edits[1].range, edits[1].text)
                   /\ selection' = [start |-> edits[1].range.start,
                                    end |-> edits[1].range.start + Len(edits[1].text)]
                   /\ UNCHANGED errorMessages
              ELSE /\ errorMessages' = Append(errorMessages,
                        "ZeTranslate: Error while replacing the text")
                   /\ UNCHANGED <<doc, selection>>
    /\ pc' = "done"
    /\ UNCHANGED <<editor, doc0, selectedText, text, supportedLanguages,
                   languages, lookups, sourceLangPick, sourceLang,
                   targetLangPick, targetLang, getOutcome, postOutcome, httpLog,
                   inFlight, prompts, infoMessages, edits, trace, threw>>

(***************************************************************************)
(* The user moves the selection while the command awaits                   *)
(***************************************************************************)
UserMovesSelection ==
    /\ pc \in {"get", "source", "target", "post"}
    /\ \E r \in Ranges(doc) : r # selection /\ selection' = r
    /\ UNCHANGED <<editor, doc, pc, selectedText, text, supportedLanguages,
                   languages, lookups, sourceLangPick, sourceLang,
                   targetLangPick, targetLang, getOutcome, postOutcome, httpLog,
                   inFlight, prompts, errorMessages, infoMessages, edits,
                   editOutcome, trace, threw, doc0>>

Next ==
    \/ Invoke
    \/ GetResponse
    \/ SourcePick
    \/ TargetPick
    \/ PostResponse
    \/ EditResolved
    \/ UserMovesSelection

Spec == Init /\ [][Next]_vars

(***************************************************************************)
(* Properties                                                              *)
(***************************************************************************)
Messages == Len(errorMessages) + Len(infoMessages)

Requests(method) == {i \in DOMAIN httpLog : httpLog[i].method = method}

Supported(code) == \E i \in DOMAIN supportedLanguages : supportedLanguages[i] = code

\* C1: an invocation with no text selected (no active editor, or an empty
\* selection) issues no HTTP request, shows exactly one error notification,
\* shows no prompt and does not edit the document.
C1_NoTextSelected ==
    (pc = "done" /\ (~editor \/ text = <<>>)) =>
        /\ httpLog = <<>>
        /\ Len(errorMessages) = 1
        /\ prompts = <<>>
        /\ edits = <<>>
        /\ doc = doc0

\* C2: an invocation whose GET /languages request failed, or whose POST request
\* failed (rejected, or answered without data.translations.translatedText),
\* never mutates the document and shows exactly one error notification; after
\* a failed GET no prompt is shown and no POST is issued.
C2_FailedRequest ==
    LET getFailed == getOutcome \in {"rejected", "malformed"}
        postFailed == postOutcome.kind \in
            {"rejected", "noData", "noTranslations", "noTranslatedText"}
    IN  /\ (getFailed \/ postFailed) => doc = doc0
        /\ (pc = "done" /\ (getFailed \/ postFailed)) => Len(errorMessages) = 1
        /\ getFailed => (prompts = <<>> /\ Requests("POST") = {})

\* C3: once the source or the target quick-pick is dismissed, the invocation
\* has ended, no POST is ever issued and the document is never edited; after a
\* dismissed source prompt the target prompt is never shown.
C3_DismissedPromptAborts ==
    (sourceLangPick = Undefined \/ targetLangPick = Undefined) =>
        /\ pc = "done"
        /\ Requests("POST") = {}
        /\ edits = <<>>
        /\ doc = doc0
        /\ sourceLangPick = Undefined => prompts = <<"Select the source language">>

C3_Witness ==
    /\ pc = "done"
    /\ sourceLangPick \in languagesNames(languages)
    /\ targetLangPick = Undefined
    /\ Len(prompts) = 2

\* C4: after a successful translate response the text handed to the document
\* replacement is translatedText followed by one newline when the selected
\* text ends with a newline, and translatedText itself otherwise, whether or
\* not translatedText already ends with a newline.
C4_ReplacementText ==
    \A i \in DOMAIN edits :
        postOutcome.kind = "ok" =>
            /\ text # <<>>
            /\ text[Len(text)] = NL =>
                   edits[i].text = Append(postOutcome.translatedText, NL)
            /\ text[Len(text)] # NL =>
                   edits[i].text = postOutcome.translatedText

C4_Witness ==
    /\ edits # <<>>
    /\ postOutcome.kind = "ok"
    /\ endsWith(text, NL)
    /\ endsWith(postOutcome.translatedText, NL)
    /\ edits[1].text = postOutcome.translatedText \o <<NL>>

\* C5 as stated: nameToCode is the left inverse of the map built by
\* getLanguageNames: every code of the map is what nameToCode returns for its
\* name, also when two codes have the same name; a name that is no value of
\* the map gives null.
C5_LeftInverse ==
    /\ \A i \in DOMAIN languages :
           nameToCode(languages, languages[i].name) = languages[i].code
    /\ \A n \in Names \ languagesNames(languages) : nameToCode(languages, n) = Null

\* C5 as amended: for a name of the map, nameToCode returns the first code, in
\* the map's entry order, that has this name; so it returns c for the name of
\* c whenever no earlier code of the map has the same name. A name that is no
\* value of the map gives null.
C5_FirstCodeWithName ==
    /\ \A i \in DOMAIN languages :
           \E k \in 1..i :
               /\ languages[k].name = languages[i].name
               /\ \A j \in 1..(k - 1) : languages[j].name # languages[i].name
               /\ nameToCode(languages, languages[i].name) = languages[k].code
    /\ \A i \in DOMAIN languages :
           (\A j \in 1..(i - 1) : languages[j].name # languages[i].name) =>
               nameToCode(languages, languages[i].name) = languages[i].code
    /\ \A n \in Names \ languagesNames(languages) : nameToCode(languages, n) = Null

C5_Witness ==
    /\ pc = "source"
    /\ \E i, j \in DOMAIN languages :
           /\ i < j
           /\ languages[i].name = languages[j].name
           /\ languages[i].code # languages[j].code
           /\ nameToCode(languages, languages[j].name) = languages[i].code

\* C6: every code of the special-case table is looked up as its documented
\* substitution ("zh-CN" as "cmn", "zh-TW" as "TW", "mni-Mtei" as "mni"), and
\* every other code is looked up unchanged; one lookup per supported code.
C6_SpecialCaseTable ==
    /\ getOutcome = "ok" => Len(lookups) = Len(supportedLanguages)
    /\ \A i \in DOMAIN lookups :
           LET code == lookups[i].code
               tag == lookups[i].tag
           IN  /\ code = supportedLanguages[i]
               /\ code = "zh-CN" => tag = "cmn"
               /\ code = "zh-TW" => tag = "TW"
               /\ code = "mni-Mtei" => tag = "mni"
               /\ code \notin {"zh-CN", "zh-TW", "mni-Mtei"} => tag = code

C6_Witness ==
    /\ Len(lookups) = 2
    /\ lookups[1] = [code |-> "zh-TW", tag |-> "TW"]
    /\ lookups[2] = [code |-> "he", tag |-> "he"]

\* C7: every invocation ends either with the selection replaced and no
\* message, or with a message shown and the document unchanged; a rejected
\* edit gives exactly one error notification and an unchanged document.
C7_ReplacedOrMessage ==
    pc = "done" =>
        /\ \/ (editOutcome = "applied" /\ Messages = 0)
           \/ (editOutcome # "applied" /\ Messages >= 1 /\ doc = doc0)
        /\ editOutcome = "rejected" => (Len(errorMessages) = 1 /\ doc = doc0)

C9_ReplacesReadRange ==
    \A i \in DOMAIN edits : edits[i].range = selectedText

\* C10: source and target of every translate request are codes of the
\* supported-language list returned by the GET of the same invocation, each
\* the code of the language name picked in the corresponding prompt.
C10_RequestCodesSupported ==
    \A i \in Requests("POST") :
        /\ Supported(httpLog[i].source)
        /\ Supported(httpLog[i].target)
        /\ LanguageName(NormalizeCode(httpLog[i].source)) = sourceLangPick
        /\ LanguageName(NormalizeCode(httpLog[i].target)) = targetLangPick

====
